---- MODULE Spec2Model ----
(***************************************************************************)
(* Model of src/hm05/hw5code.py: find_best_split and the DecisionTree      *)
(* class (constructor, fit/_fit_node, predict/_predict_node).              *)
(*                                                                         *)
(* Numbers.  Feature values are integers.  A threshold is the midpoint of  *)
(* two integers, so it is kept as a fraction [num, den] like every other   *)
(* non-integer quantity (Gini scores, categorical ratios); fractions are   *)
(* kept in lowest terms, so equal values have equal representations.       *)
(* Python's None is the empty sequence <<>> and a present value v is <<v>>.*)
(* A call that raises is a record with raised = TRUE.                      *)
(***************************************************************************)
EXTENDS Integers, Sequences, FiniteSets, TLC

VARIABLES obj, feature_types, tree, X, call, fv, tv, res

vars == <<obj, feature_types, tree, X, call, fv, tv, res>>

(***************************************************************************)
(* Bounds of the model.                                                    *)
(***************************************************************************)
MaxLen == 4
MaxRows == 3
MaxLabel == 1

Labels == 0 .. MaxLabel
SplitValues == 1 .. 4
ClassLabels == {0, 1}
FeatureValues == {0, 1}
ColumnCounts == {0, 1}
TagCounts == {0, 1, 2}
PredictRowCounts == {0, 1, 2}
Tags == {"real", "categorical", "ordinal"}

SeqsUpTo(S, n) == UNION {[1 .. k -> S] : k \in 0 .. n}

(***************************************************************************)
(* Exact arithmetic on fractions.                                          *)
(***************************************************************************)
RECURSIVE GCD(_, _)
GCD(a, b) == IF b = 0 THEN a ELSE GCD(b, a % b)

Frac(n, d) == LET g == GCD(n, d) IN [num |-> n \div g, den |-> d \div g]

FracOfInt(n) == [num |-> n, den |-> 1]

FracAdd(a, b) == Frac(a.num * b.den + b.num * a.den, a.den * b.den)

FracMul(a, b) == Frac(a.num * b.num, a.den * b.den)

FracSub(a, b) == Frac(a.num * b.den - b.num * a.den, a.den * b.den)

FracLt(a, b) == a.num * b.den < b.num * a.den

IntLtFrac(v, t) == v * t.den < t.num

(***************************************************************************)
(* Sequences, masks and counters.                                          *)
(***************************************************************************)
Range(s) == {s[i] : i \in DOMAIN s}

RECURSIVE SortedSeq(_)
SortedSeq(S) ==
    IF S = {} THEN <<>>
    ELSE LET m == CHOOSE x \in S : \A y \in S : x <= y
         IN <<m>> \o SortedSeq(S \ {m})

\* np.unique: the sorted distinct values
unique(v) == SortedSeq(Range(v))

\* s[mask] for a boolean mask of the same length
RECURSIVE MaskFrom(_, _, _)
MaskFrom(s, mask, i) ==
    IF i > Len(s) THEN <<>>
    ELSE (IF mask[i] THEN <<s[i]>> ELSE <<>>) \o MaskFrom(s, mask, i + 1)

Masked(s, mask) == MaskFrom(s, mask, 1)

MaskSum(mask) == Cardinality({i \in DOMAIN mask : mask[i]})

MaskNot(mask) == [i \in DOMAIN mask |-> ~mask[i]]

\* Counter(s)[c]
CounterOf(s, c) == Cardinality({i \in DOMAIN s : s[i] = c})

\* the keys of Counter(s), in order of first occurrence
RECURSIVE KeysFrom(_, _)
KeysFrom(s, i) ==
    IF i > Len(s) THEN <<>>
    ELSE (IF \E j \in 1 .. (i - 1) : s[j] = s[i] THEN <<>> ELSE <<s[i]>>)
         \o KeysFrom(s, i + 1)

CounterKeys(s) == KeysFrom(s, 1)

\* sum((count / size) ** 2 for count in Counter(s).values())
RECURSIVE SumSqFrom(_, _, _, _)
SumSqFrom(s, keys, size, i) ==
    IF i > Len(keys) THEN FracOfInt(0)
    ELSE LET p == Frac(CounterOf(s, keys[i]), size)
         IN FracAdd(FracMul(p, p), SumSqFrom(s, keys, size, i + 1))

\* 1 - sum((count / size) ** 2 ...)
GiniOf(s, size) == FracSub(FracOfInt(1), SumSqFrom(s, CounterKeys(s), size, 1))

\* np.argmax: the first index of a maximal element
ArgMax(g) ==
    CHOOSE i \in DOMAIN g :
        /\ \A j \in DOMAIN g : ~FracLt(g[i], g[j])
        /\ \A j \in 1 .. (i - 1) : FracLt(g[j], g[i])

\* mutation of ArgMin: the best index taken with argmax
ArgMin_argmax(g) == ArgMax(g)

\* np.argmin: the first index of a minimal element
ArgMin(g) ==
    CHOOSE i \in DOMAIN g :
        /\ \A j \in DOMAIN g : ~FracLt(g[j], g[i])
        /\ \A j \in 1 .. (i - 1) : FracLt(g[i], g[j])

(***************************************************************************)
(* find_best_split                                                         *)
(***************************************************************************)
\* mutation of Midpoint: the division by 2 left out
Midpoint_sum(a, b) == Frac(a + b, 1)

\* threshold = (unique_values[i] + unique_values[i + 1]) / 2
Midpoint(a, b) == Frac(a + b, 2)

\* left_mask = feature_vector < threshold
LeftMask(feature_vector, threshold) ==
    [i \in DOMAIN feature_vector |-> IntLtFrac(feature_vector[i], threshold)]

\* the weighted Gini score of one threshold
WeightedGini(feature_vector, target_vector, threshold) ==
    LET left_mask == LeftMask(feature_vector, threshold)
        right_mask == MaskNot(left_mask)
        total_count == Len(target_vector)
        left_size == MaskSum(left_mask)
        right_size == MaskSum(right_mask)
        left_gini == GiniOf(Masked(target_vector, left_mask), left_size)
        right_gini == GiniOf(Masked(target_vector, right_mask), right_size)
    IN FracAdd(FracMul(Frac(left_size, total_count), left_gini),
               FracMul(Frac(right_size, total_count), right_gini))

\* the loop over adjacent unique values: <<thresholds, ginis>> from index i on
RECURSIVE SplitLoop(_, _, _, _)
SplitLoop(feature_vector, target_vector, unique_values, i) ==
    IF i > Len(unique_values) - 1 THEN <<<<>>, <<>>>>
    ELSE LET threshold == Midpoint(unique_values[i], unique_values[i + 1])
             left_mask == LeftMask(feature_vector, threshold)
             rest == SplitLoop(feature_vector, target_vector, unique_values, i + 1)
         IN IF MaskSum(left_mask) > 0 /\ MaskSum(MaskNot(left_mask)) > 0
            THEN <<<<threshold>> \o rest[1],
                   <<WeightedGini(feature_vector, target_vector, threshold)>> \o rest[2]>>
            ELSE rest

\* [raised, ret]: ret is the returned 4-tuple; indexing target_vector with a
\* mask of another length raises IndexError
find_best_split(feature_vector, target_vector) ==
    LET unique_values == unique(feature_vector)
    IN IF Len(unique_values) < 2
       THEN [raised |-> FALSE, ret |-> <<<<>>, <<>>, <<>>, <<>>>>]
       ELSE IF Len(target_vector) # Len(feature_vector)
       THEN [raised |-> TRUE, ret |-> <<>>]
       ELSE LET tg == SplitLoop(feature_vector, target_vector, unique_values, 1)
                thresholds == tg[1]
                ginis == tg[2]
            IN IF ginis # <<>>
               THEN LET gini_best_index == ArgMin(ginis)
                    IN [raised |-> FALSE,
                        ret |-> <<thresholds, ginis,
                                  <<thresholds[gini_best_index]>>,
                                  <<ginis[gini_best_index]>>>>]
               ELSE [raised |-> FALSE, ret |-> <<<<>>, <<>>, <<>>, <<>>>>]

(***************************************************************************)
(* DecisionTree: nodes.  A node is the dict of the code: every key is      *)
(* either absent (<<>>) or present (<<value>>).                            *)
(***************************************************************************)
EmptyNode ==
    [type |-> <<>>, class |-> <<>>, feature_split |-> <<>>, threshold |-> <<>>,
     left_child |-> <<>>, right_child |-> <<>>]

\* a matrix: shape1 columns and the rows, each a tuple of shape1 values
Matrix(ncols, rows) == [shape1 |-> ncols, rows |-> rows]

\* sub_X[:, feature]  (feature counts from 0)
Column(sub_X, feature) ==
    [i \in 1 .. Len(sub_X.rows) |-> sub_X.rows[i][feature + 1]]

\* sub_X[mask]
MaskRows(sub_X, mask) == Matrix(sub_X.shape1, Masked(sub_X.rows, mask))

\* mutation of init_raises: np.all in place of np.any
init_raises_all(ft) == \A i \in DOMAIN ft : ft[i] # "real" /\ ft[i] # "categorical"

\* DecisionTree.__init__: raises on a tag that is neither "real" nor "categorical"
init_raises(ft) == \E i \in DOMAIN ft : ft[i] # "real" /\ ft[i] # "categorical"

\* Counter(sub_y).most_common(1)[0][0]: the first-encountered most frequent class
MostCommon(sub_y) ==
    LET keys == CounterKeys(sub_y)
        k == CHOOSE i \in DOMAIN keys :
                 /\ \A j \in DOMAIN keys : CounterOf(sub_y, keys[j]) <= CounterOf(sub_y, keys[i])
                 /\ \A j \in 1 .. (i - 1) : CounterOf(sub_y, keys[j]) < CounterOf(sub_y, keys[i])
    IN keys[k]

\* lines 98-103: the ranks of a categorical column; raises when the mask
\* sub_y == 1 has another length than the column
CategoricalVector(column, sub_y) ==
    IF Len(sub_y) # Len(column) THEN [raised |-> TRUE, vec |-> <<>>]
    ELSE LET keys == CounterKeys(column)
             clicked == Masked(column, [i \in DOMAIN sub_y |-> sub_y[i] = 1])
             ratio(k) == IF CounterOf(clicked, keys[k]) > 0
                         THEN Frac(CounterOf(column, keys[k]), CounterOf(clicked, keys[k]))
                         ELSE FracOfInt(0)
             \* position of key k in the stable ascending sort by ratio
             idx(k) == Cardinality({j \in DOMAIN keys :
                           \/ FracLt(ratio(j), ratio(k))
                           \/ (ratio(j) = ratio(k) /\ j < k)})
             categories_map(x) == idx(CHOOSE k \in DOMAIN keys : keys[k] = x)
         IN [raised |-> FALSE,
             vec |-> [i \in DOMAIN column |-> categories_map(column[i])]]

\* line 107: "thresholds, ginis = <tuple>" raises unless the tuple has 2 items
Unpack2(t) ==
    IF Len(t) = 2 THEN [raised |-> FALSE, thresholds |-> t[1], ginis |-> t[2]]
    ELSE [raised |-> TRUE, thresholds |-> <<>>, ginis |-> <<>>]

NoBest == [feature_best |-> <<>>, threshold_best |-> <<>>, gini_best |-> <<>>, split |-> <<>>]

Raise(best) == [raised |-> TRUE, best |-> best]

\* lines 93-105: the vector the split search gets for one column; raises on
\* a column without a feature type and on an unknown feature type
FeatureVector(sub_X, sub_y, ft, feature) ==
    IF feature + 1 > Len(ft) THEN [raised |-> TRUE, vec |-> <<>>]
    ELSE IF ft[feature + 1] = "real"
    THEN [raised |-> FALSE, vec |-> Column(sub_X, feature)]
    ELSE IF ft[feature + 1] = "categorical"
    THEN CategoricalVector(Column(sub_X, feature), sub_y)
    ELSE [raised |-> TRUE, vec |-> <<>>]

\* lines 108-112 for the index k = np.argmax(ginis): the column replaces the
\* best so far when there is none or when its largest score is larger
UpdateBest(best, feature, feature_vector, thresholds, ginis, k) ==
    IF best.gini_best = <<>> \/ FracLt(best.gini_best[1], ginis[k])
    THEN [feature_best |-> <<feature>>,
          threshold_best |-> <<thresholds[k]>>,
          gini_best |-> <<ginis[k]>>,
          split |-> <<LeftMask(feature_vector, thresholds[k])>>]
    ELSE best

\* lines 107-112 once the tuple is unpacked: ginis.max() of an empty
\* sequence raises
AfterUnpack(best, feature, feature_vector, u) ==
    IF u.raised \/ u.ginis = <<>> THEN Raise(best)
    ELSE [raised |-> FALSE,
          best |-> UpdateBest(best, feature, feature_vector, u.thresholds, u.ginis,
                              ArgMax(u.ginis))]

\* line 107 on r, the outcome of the call of find_best_split
AfterSplitSearch(best, feature, feature_vector, r) ==
    IF r.raised THEN Raise(best)
    ELSE AfterUnpack(best, feature, feature_vector, Unpack2(r.ret))

\* lines 107-112 on enc, the outcome of lines 93-105
AfterFeatureVector(best, feature, sub_y, enc) ==
    IF enc.raised THEN Raise(best)
    ELSE AfterSplitSearch(best, feature, enc.vec, find_best_split(enc.vec, sub_y))

\* lines 93-112: one iteration of the loop over the columns
FeatureStep(sub_X, sub_y, ft, feature, best) ==
    AfterFeatureVector(best, feature, sub_y, FeatureVector(sub_X, sub_y, ft, feature))

RECURSIVE FeatureLoop(_, _, _, _, _)

\* the loop goes on after an iteration that did not raise
FeatureLoopNext(sub_X, sub_y, ft, feature, step) ==
    IF step.raised THEN step
    ELSE FeatureLoop(sub_X, sub_y, ft, feature + 1, step.best)

\* lines 92-112: the loop over the columns from `feature` on; best carries
\* feature_best, threshold_best, gini_best, split
FeatureLoop(sub_X, sub_y, ft, feature, best) ==
    IF feature >= sub_X.shape1 THEN [raised |-> FALSE, best |-> best]
    ELSE FeatureLoopNext(sub_X, sub_y, ft, feature,
                         FeatureStep(sub_X, sub_y, ft, feature, best))

\* mutation of AllOneClass: len(sub_y) in place of len(set(sub_y))
AllOneClass_len(sub_y) == Len(sub_y) = 1

\* line 85: len(set(sub_y)) == 1
AllOneClass(sub_y) == Cardinality(Range(sub_y)) = 1

RECURSIVE fit_node(_, _, _, _)

\* lines 126-127 on l and r, the outcomes of the two recursive calls: the
\* right call is made only when the left one returned
JoinChildren(inner, l, r) ==
    IF l.raised
    THEN [raised |-> TRUE, node |-> [inner EXCEPT !.left_child = <<l.node>>]]
    ELSE [raised |-> r.raised,
          node |-> [inner EXCEPT !.left_child = <<l.node>>, !.right_child = <<r.node>>]]

\* lines 126-127: the recursive calls on the rows selected by split and by
\* ~split; inner is the node as lines 121-124 left it.  Indexing sub_y with
\* a mask of another length raises.
fit_children(sub_X, sub_y, inner, split, ft) ==
    IF Len(sub_y) # Len(split) THEN [raised |-> TRUE, node |-> inner]
    ELSE JoinChildren(inner,
                      fit_node(MaskRows(sub_X, split), Masked(sub_y, split), EmptyNode, ft),
                      fit_node(MaskRows(sub_X, MaskNot(split)), Masked(sub_y, MaskNot(split)),
                               EmptyNode, ft))

\* lines 114-127 on loop, the outcome of the loop over the columns
AfterFeatureLoop(sub_X, sub_y, node, ft, loop) ==
    IF loop.raised THEN [raised |-> TRUE, node |-> node]
    ELSE IF loop.best.gini_best = <<>>
    THEN (IF sub_y = <<>>
          \* line 116 writes the type, then most_common(1)[0] raises
          THEN [raised |-> TRUE, node |-> [node EXCEPT !.type = <<"terminal">>]]
          ELSE [raised |-> FALSE,
                node |-> [node EXCEPT !.type = <<"terminal">>,
                                      !.class = <<MostCommon(sub_y)>>]])
    ELSE fit_children(sub_X, sub_y,
                      [node EXCEPT !.type = <<"nonterminal">>,
                                   !.feature_split = loop.best.feature_best,
                                   !.threshold = loop.best.threshold_best,
                                   !.left_child = <<EmptyNode>>,
                                   !.right_child = <<EmptyNode>>],
                      loop.best.split[1], ft)

\* DecisionTree._fit_node: [raised, node], node being the dict as the call
\* leaves it (also when it raises)
fit_node(sub_X, sub_y, node, ft) ==
    IF AllOneClass(sub_y)
    THEN [raised |-> FALSE,
          node |-> [node EXCEPT !.type = <<"terminal">>, !.class = <<sub_y[1]>>]]
    ELSE AfterFeatureLoop(sub_X, sub_y, node, ft,
                          FeatureLoop(sub_X, sub_y, ft, 0, NoBest))

\* DecisionTree.fit: builds into the stored root dict
fit(Xm, y, t, ft) == fit_node(Xm, y, t, ft)

\* DecisionTree._predict_node: [raised, class]; reading a missing key raises
RECURSIVE predict_node(_, _, _)
predict_node(x, node, ft) ==
    IF node.type = <<>> THEN [raised |-> TRUE, class |-> <<>>]
    ELSE IF node.type = <<"terminal">>
    THEN (IF node.class = <<>> THEN [raised |-> TRUE, class |-> <<>>]
          ELSE [raised |-> FALSE, class |-> node.class])
    ELSE IF node.feature_split = <<>> \/ node.feature_split[1] + 1 > Len(x)
            \/ node.feature_split[1] + 1 > Len(ft)
    THEN [raised |-> TRUE, class |-> <<>>]
    ELSE
      LET feature_value == x[node.feature_split[1] + 1]
          feature_type == ft[node.feature_split[1] + 1]
          \* int(feature_value) of an integer is the value itself
          category_index == feature_value
          child == IF feature_type = "real"
                   THEN (IF IntLtFrac(feature_value, node.threshold[1])
                         THEN node.left_child ELSE node.right_child)
                   ELSE (IF IntLtFrac(category_index, node.threshold[1])
                         THEN node.left_child ELSE node.right_child)
      IN IF feature_type \notin {"real", "categorical"} \/ child = <<>>
         THEN [raised |-> TRUE, class |-> <<>>]
         ELSE predict_node(x, child[1], ft)

\* the loop of predict over the rows from index i on
RECURSIVE predict_from(_, _, _, _)
predict_from(rows, t, ft, i) ==
    IF i > Len(rows) THEN [raised |-> FALSE, out |-> <<>>]
    ELSE LET p == predict_node(rows[i], t, ft)
         IN IF p.raised THEN [raised |-> TRUE, out |-> <<>>]
            ELSE LET rest == predict_from(rows, t, ft, i + 1)
                 IN [raised |-> rest.raised,
                     out |-> IF rest.raised THEN <<>> ELSE p.class \o rest.out]

\* mutation of predict: the loop stops one row early
predict_short(rows, t, ft) ==
    LET r == predict_from(SubSeq(rows, 1, Len(rows) - 1), t, ft, 1)
    IN [raised |-> r.raised, out |-> r.out, tree |-> t]

\* DecisionTree.predict: [raised, out, tree]: one prediction per row, in row
\* order, and the stored root dict after the call (nothing writes to it)
predict(rows, t, ft) ==
    LET r == predict_from(rows, t, ft, 1)
    IN [raised |-> r.raised, out |-> r.out, tree |-> t]

(***************************************************************************)
(* The object's life: construction, then fit and predict calls in any      *)
(* order.  X is the feature matrix the caller holds; each fit call brings  *)
(* its own label vector, each predict call its own rows.  call records the *)
(* last call: its arguments and how it ended.                              *)
(***************************************************************************)
NoCall == [op |-> "none", tags |-> <<>>, y |-> <<>>, rows |-> <<>>,
           raised |-> FALSE, out |-> <<>>]

Matrices ==
    UNION {{Matrix(d, rows) : rows \in SeqsUpTo([1 .. d -> FeatureValues], MaxRows)}
           : d \in ColumnCounts}

LabelVectors == SeqsUpTo(ClassLabels, MaxRows)

TagVectors == UNION {[1 .. d -> Tags] : d \in TagCounts}

PredictInputs(d) ==
    UNION {[1 .. k -> [1 .. d -> FeatureValues]] : k \in PredictRowCounts}

SplitIdle == fv = <<>> /\ tv = <<>> /\ res = <<>>

Init ==
    /\ obj = "none"
    /\ feature_types = <<>>
    /\ tree = EmptyNode
    /\ X \in Matrices
    /\ call = NoCall
    /\ SplitIdle

\* DecisionTree(ft)
Construct(ft) ==
    /\ obj = "none"
    /\ obj' = IF init_raises(ft) THEN "failed" ELSE "constructed"
    /\ feature_types' = IF init_raises(ft) THEN feature_types ELSE ft
    /\ tree' = EmptyNode
    /\ call' = [NoCall EXCEPT !.op = "init", !.tags = ft, !.raised = init_raises(ft)]
    /\ UNCHANGED <<X, fv, tv, res>>

\* tree.fit(X, y)
Fit(y) ==
    /\ obj = "constructed"
    /\ LET r == fit(X, y, tree, feature_types)
       IN /\ tree' = r.node
          /\ call' = [NoCall EXCEPT !.op = "fit", !.y = y, !.raised = r.raised]
    /\ UNCHANGED <<obj, feature_types, X, fv, tv, res>>

\* tree.predict(rows)
Predict(rows) ==
    /\ obj = "constructed"
    /\ LET r == predict(rows, tree, feature_types)
       IN /\ tree' = r.tree
          /\ call' = [NoCall EXCEPT !.op = "predict", !.rows = rows,
                                    !.raised = r.raised, !.out = r.out]
    /\ UNCHANGED <<obj, feature_types, X, fv, tv, res>>

Next ==
    \/ \E ft \in TagVectors : Construct(ft)
    \/ \E y \in LabelVectors : Fit(y)
    \/ \E rows \in PredictInputs(X.shape1) : Predict(rows)

Spec == Init /\ [][Next]_vars

(***************************************************************************)
(* The scenario of two real-or-categorical columns over the four rows      *)
(* (0,0), (0,1), (1,0), (1,1).                                             *)
(***************************************************************************)
AndRows == <<<<0, 0>>, <<0, 1>>, <<1, 0>>, <<1, 1>>>>

AndLabels == <<0, 0, 0, 1>>

AndMatrix == Matrix(Len(AndRows[1]), AndRows)

\* the scenario's matrix and every selection of its rows
ScenarioMatrices == {MaskRows(AndMatrix, m) : m \in [DOMAIN AndRows -> BOOLEAN]}

InitScenario ==
    /\ obj = "none"
    /\ feature_types = <<>>
    /\ tree = EmptyNode
    /\ X \in ScenarioMatrices
    /\ call = NoCall
    /\ SplitIdle

NextScenario ==
    \/ \E ft \in TagVectors : Construct(ft)
    \/ \E y \in [DOMAIN X.rows -> ClassLabels] : Fit(y)
    \/ \E rows \in PredictInputs(X.shape1) \cup {X.rows} : Predict(rows)

ScenarioSpec == InitScenario /\ [][NextScenario]_vars

(***************************************************************************)
(* find_best_split applied to every feature vector and label vector of     *)
(* the same length.                                                        *)
(***************************************************************************)
InitSplit ==
    /\ obj = "none"
    /\ feature_types = <<>>
    /\ tree = EmptyNode
    /\ X = Matrix(0, <<>>)
    /\ call = NoCall
    /\ fv \in SeqsUpTo(SplitValues, MaxLen)
    /\ tv \in [1 .. Len(fv) -> Labels]
    /\ res = <<>>

CallFindBestSplit ==
    /\ res = <<>>
    /\ res' = <<find_best_split(fv, tv)>>
    /\ UNCHANGED <<obj, feature_types, tree, X, call, fv, tv>>

NextSplit == CallFindBestSplit

SplitSpec == InitSplit /\ [][NextSplit]_vars

(***************************************************************************)
(* Properties of DecisionTree.                                             *)
(***************************************************************************)
ValidTag(t) == t = "real" \/ t = "categorical"

TerminalNode(c) == [EmptyNode EXCEPT !.type = <<"terminal">>, !.class = <<c>>]

Distinct(s) == Cardinality(Range(s))

\* C1: after a fit on a non-empty label vector whose labels are all the same,
\* the root is a terminal node of that class and nothing else (no children),
\* and predict returns that class for every row of every input, seen or not.
C1_PureLabelsGiveTerminalRoot ==
    (call.op = "fit" /\ call.y # <<>> /\ Distinct(call.y) = 1)
    => /\ ~call.raised
       /\ tree = TerminalNode(call.y[1])
       /\ \A rows \in PredictInputs(X.shape1) \cup {X.rows} :
            LET p == predict(rows, tree, feature_types)
            IN /\ ~p.raised
               /\ p.out = [i \in DOMAIN rows |-> call.y[1]]

C1_Witness ==
    /\ call.op = "fit"
    /\ call.y = <<1, 1>>
    /\ Len(X.rows) = 2
    /\ X.shape1 = 1
    /\ tree = TerminalNode(1)

\* the vector the split search sees for column f of X under labels y
SearchVector(f, y) ==
    IF feature_types[f + 1] = "real" THEN Column(X, f)
    ELSE CategoricalVector(Column(X, f), y).vec

\* C2: a fit on labels that are not all the same, with a column of two or
\* more distinct values, returns with an internal root whose (feature,
\* threshold) has the lowest weighted Gini score over all columns and all
\* candidate thresholds, and with two children.
C2_SplitNodeTakesLowestGini ==
    (/\ call.op = "fit"
     /\ Len(call.y) = Len(X.rows)
     /\ Len(feature_types) = X.shape1
     /\ Distinct(call.y) > 1
     /\ \E f \in 0 .. (X.shape1 - 1) : Distinct(Column(X, f)) >= 2)
    => /\ ~call.raised
       /\ tree.type = <<"nonterminal">>
       /\ tree.left_child # <<>>
       /\ tree.right_child # <<>>
       /\ \E f \in 0 .. (X.shape1 - 1) :
            LET r == find_best_split(SearchVector(f, call.y), call.y).ret
            IN \E i \in DOMAIN r[1] :
                 /\ tree.feature_split = <<f>>
                 /\ tree.threshold = <<r[1][i]>>
                 /\ \A g \in 0 .. (X.shape1 - 1) :
                      LET q == find_best_split(SearchVector(g, call.y), call.y).ret
                      IN \A j \in DOMAIN q[2] : ~FracLt(q[2][j], r[2][i])

\* C3: a fit on labels that are not all the same, when every column holds a
\* single value, returns with a terminal root of the majority class (the
\* first-encountered one on ties).
C3_NoSplitGivesMajorityTerminal ==
    (/\ call.op = "fit"
     /\ Len(call.y) = Len(X.rows)
     /\ Len(feature_types) = X.shape1
     /\ Distinct(call.y) > 1
     /\ \A f \in 0 .. (X.shape1 - 1) : Distinct(Column(X, f)) < 2)
    => /\ ~call.raised
       /\ tree.type = <<"terminal">>
       /\ tree.class = <<MostCommon(call.y)>>

RECURSIVE InternalCount(_)
InternalCount(node) ==
    IF node.type # <<"nonterminal">> THEN 0
    ELSE 1 + (IF node.left_child = <<>> THEN 0 ELSE InternalCount(node.left_child[1]))
           + (IF node.right_child = <<>> THEN 0 ELSE InternalCount(node.right_child[1]))

\* C4: the fit of two real columns on rows (0,0),(0,1),(1,0),(1,1) with labels
\* 0,0,0,1 returns with one or two internal nodes, and predict on the same
\* rows returns 0,0,0,1.
C4_AndScenarioFitsExactly ==
    (/\ call.op = "fit"
     /\ feature_types = <<"real", "real">>
     /\ X = AndMatrix
     /\ call.y = AndLabels)
    => /\ ~call.raised
       /\ InternalCount(tree) \in {1, 2}
       /\ predict(AndRows, tree, feature_types).out = AndLabels

\* C7: a construction raises exactly when some tag is neither "real" nor
\* "categorical"; when it raises there is no object, so no fit or predict
\* follows; when it does not, the object holds the tags.
C7_ConstructionRejectsUnknownTags ==
    /\ call.op = "init"
       => /\ call.raised <=> (\E i \in DOMAIN call.tags : ~ValidTag(call.tags[i]))
          /\ call.raised => obj = "failed"
          /\ ~call.raised => (obj = "constructed" /\ feature_types = call.tags)
    /\ obj = "failed" => (call.op = "init" /\ call.raised /\ tree = EmptyNode)
    /\ obj = "constructed" => \A i \in DOMAIN feature_types : ValidTag(feature_types[i])

C7_Witness ==
    /\ obj = "failed"
    /\ call.op = "init"
    /\ call.tags = <<"real", "ordinal">>

C7_WitnessValid ==
    /\ obj = "constructed"
    /\ call.op = "init"
    /\ call.tags = <<"categorical", "real">>

\* C8: a fit on an empty dataset, or on a label vector whose length is not
\* the number of rows, raises.
C8_FitRejectsDegenerateInput ==
    (call.op = "fit" /\ (X.rows = <<>> \/ Len(call.y) # Len(X.rows)))
    => call.raised

RowOrders(n) == {p \in [1 .. n -> 1 .. n] : \A i, j \in 1 .. n : p[i] = p[j] => i = j}

\* C9: a predict call leaves the tree as it was; when it returns, it has one
\* output per row, the i-th being what predict returns for the i-th row
\* alone, and predicting the rows in any other order gives the outputs in
\* that order.
C9_PredictReadsOnly ==
    [][call'.op = "predict"
       => /\ tree' = tree
          /\ ~call'.raised
             => /\ Len(call'.out) = Len(call'.rows)
                /\ \A i \in DOMAIN call'.rows :
                     LET one == predict(<<call'.rows[i]>>, tree, feature_types)
                     IN ~one.raised /\ one.out = <<call'.out[i]>>
                /\ \A p \in RowOrders(Len(call'.rows)) :
                     LET again == predict([i \in DOMAIN call'.rows |-> call'.rows[p[i]]],
                                          tree', feature_types')
                     IN /\ ~again.raised
                        /\ again.out = [i \in DOMAIN call'.rows |-> call'.out[p[i]]]
                        /\ again.tree = tree]_vars

C9_Witness ==
    /\ call.op = "predict"
    /\ ~call.raised
    /\ Len(call.rows) = 2
    /\ call.rows[1] # call.rows[2]
    /\ tree.type = <<"terminal">>
    /\ call.out = <<tree.class[1], tree.class[1]>>

\* C10: a fit call that raises leaves the stored tree as it was before the
\* call.
C10_FailedFitLeavesTree ==
    [][(call'.op = "fit" /\ call'.raised) => tree' = tree]_vars

(***************************************************************************)
(* Properties of find_best_split.                                          *)
(***************************************************************************)
\* the label counts on one side of a threshold
SideCount(t, left, c) ==
    Cardinality({i \in DOMAIN fv : tv[i] = c /\ (IntLtFrac(fv[i], t) <=> left)})

SideSize(t, left) ==
    Cardinality({i \in DOMAIN fv : IntLtFrac(fv[i], t) <=> left})

\* the sum over the classes in S of the squared label counts on one side
RECURSIVE SumSquares(_, _, _)
SumSquares(t, left, S) ==
    IF S = {} THEN 0
    ELSE LET c == CHOOSE x \in S : TRUE
         IN SideCount(t, left, c) * SideCount(t, left, c) + SumSquares(t, left, S \ {c})

\* g = |L|/n * (1 - sum (cL/|L|)^2) + |R|/n * (1 - sum (cR/|R|)^2), cleared
\* of denominators: g * n * |L| * |R| = (|L|^2 - sum cL^2) * |R| + (|R|^2 - sum cR^2) * |L|
IsWeightedGini(g, t) ==
    LET L == SideSize(t, TRUE)
        R == SideSize(t, FALSE)
    IN g.num * (Len(fv) * L * R)
         = g.den * ((L * L - SumSquares(t, TRUE, Labels)) * R
                    + (R * R - SumSquares(t, FALSE, Labels)) * L)

Separates(t) ==
    /\ \A i, j \in DOMAIN fv :
         (IntLtFrac(fv[i], t) <=> IntLtFrac(fv[j], t)) => tv[i] = tv[j]

\* C5: for a feature vector of two or more distinct values, every returned
\* score is the size-weighted Gini score of its threshold, the best pair is
\* the first candidate of minimal score, and a threshold with one class on
\* each side has score 0.
C5_BestIsFirstMinimalGini ==
    (res # <<>> /\ Distinct(fv) >= 2)
    => /\ ~res[1].raised
       /\ LET thresholds == res[1].ret[1]
              ginis == res[1].ret[2]
              threshold_best == res[1].ret[3]
              gini_best == res[1].ret[4]
          IN /\ \A i \in DOMAIN ginis : IsWeightedGini(ginis[i], thresholds[i])
             /\ \E i \in DOMAIN ginis :
                  /\ threshold_best = <<thresholds[i]>>
                  /\ gini_best = <<ginis[i]>>
                  /\ \A j \in DOMAIN ginis : ~FracLt(ginis[j], ginis[i])
                  /\ \A j \in 1 .. (i - 1) : FracLt(ginis[i], ginis[j])
             /\ \A i \in DOMAIN thresholds :
                  Separates(thresholds[i]) => ginis[i] = FracOfInt(0)

C5_Witness ==
    /\ fv = <<1, 1, 2, 2>>
    /\ tv = <<0, 0, 1, 1>>
    /\ res # <<>>
    /\ res[1].ret[3] = <<[num |-> 3, den |-> 2]>>
    /\ res[1].ret[4] = <<[num |-> 0, den |-> 1]>>

\* C6: the thresholds are the midpoints of the adjacent pairs of the sorted
\* distinct values, ascending, with one score each; with fewer than two
\* distinct values both sequences are empty and both best fields None; the
\* call does not raise.
C6_ThresholdsAreAdjacentMidpoints ==
    res # <<>>
    => /\ ~res[1].raised
       /\ LET thresholds == res[1].ret[1]
              ginis == res[1].ret[2]
              values == Range(fv)
              Below(v) == Cardinality({w \in values : w < v})
          IN /\ Len(ginis) = Len(thresholds)
             /\ Len(thresholds) = (IF values = {} THEN 0 ELSE Cardinality(values) - 1)
             /\ \A i \in DOMAIN thresholds :
                  \E a, b \in values :
                    /\ Below(a) = i - 1
                    /\ Below(b) = i
                    /\ 2 * thresholds[i].num = (a + b) * thresholds[i].den
             /\ \A i \in 1 .. (Len(thresholds) - 1) : FracLt(thresholds[i], thresholds[i + 1])
             /\ Cardinality(values) < 2
                => (res[1].ret = <<<<>>, <<>>, <<>>, <<>>>>)

C6_Witness ==
    /\ fv = <<3, 1, 4, 2>>
    /\ res # <<>>
    /\ res[1].ret[1] = <<[num |-> 3, den |-> 2], [num |-> 5, den |-> 2], [num |-> 7, den |-> 2]>>

C6_WitnessSingleValue ==
    /\ fv = <<2, 2, 2>>
    /\ tv = <<0, 1, 0>>
    /\ res = <<[raised |-> FALSE, ret |-> <<<<>>, <<>>, <<>>, <<>>>>]>>

====
